---- MODULE Spec2Model ----
(***************************************************************************)
(* A model of repohealth/twitter.py: the tweet patterns (template render   *)
(* and regular-expression match), the pruning of patterns and pool by      *)
(* recent tweets, the rounding helper, and the tweet_status procedure.     *)
(*                                                                         *)
(* Texts are sequences of tokens.  Every literal stretch of a template is  *)
(* one token, every value is made of its own tokens (a repository name, a  *)
(* uuid, one token per decimal digit, the qualifier "over "), so that the  *)
(* regular expression derived from a template is matched token by token    *)
(* with Python's backtracking order.                                       *)
(***************************************************************************)
EXTENDS Integers, Sequences, FiniteSets, TLC

VARIABLES pc, call, ret, cache, content, recently_tweeted, patterns,
          tweet_options, printed, posted

vars == <<pc, call, ret, cache, content, recently_tweeted, patterns,
          tweet_options, printed, posted>>

(***************************************************************************)
(* Bounds of the model.                                                    *)
(***************************************************************************)
\* largest statistic given to round_with_direction_string
MaxStat == 1300
\* largest number of records in a pool
MaxPool == 2
\* largest number of recent messages
MaxRecent == 2

(***************************************************************************)
(* Small helpers on sequences.                                             *)
(***************************************************************************)
Range(s) == {s[i] : i \in 1..Len(s)}

RemoveAt(s, i) == SubSeq(s, 1, i - 1) \o SubSeq(s, i + 1, Len(s))

Min(S) == CHOOSE m \in S : \A n \in S : m <= n

RECURSIVE Concat(_)
Concat(ss) == IF ss = <<>> THEN <<>> ELSE Head(ss) \o Concat(Tail(ss))

(***************************************************************************)
(* str() of an integer: one token per decimal digit.                       *)
(***************************************************************************)
Digit == <<"0", "1", "2", "3", "4", "5", "6", "7", "8", "9">>

RECURSIVE IntToStr(_)
IntToStr(n) == IF n < 10 THEN <<Digit[n + 1]>>
               ELSE IntToStr(n \div 10) \o <<Digit[(n % 10) + 1]>>

(***************************************************************************)
(* round_sig and round_with_direction_string.                              *)
(***************************************************************************)
RECURSIVE Pow10(_)
Pow10(k) == IF k = 0 THEN 1 ELSE 10 * Pow10(k - 1)

\* int(floor(log10(x))) for an integer x >= 1
RECURSIVE FloorLog10(_)
FloorLog10(x) == IF x < 10 THEN 0 ELSE 1 + FloorLog10(x \div 10)

\* Python's round(x, ndigits) on an int x: unchanged when ndigits >= 0,
\* otherwise to the nearest multiple of 10^-ndigits, a tie going to the
\* multiple whose quotient is even.
PyRoundInt(x, ndigits) ==
    IF ndigits >= 0 THEN x
    ELSE LET u == Pow10(-ndigits)
             q == x \div u
             r == x % u
         IN  IF 2 * r < u THEN q * u
             ELSE IF 2 * r > u THEN (q + 1) * u
             ELSE IF q % 2 = 0 THEN q * u ELSE (q + 1) * u

\* a rounding that always goes down (the mutant of round_sig)
round_sig_truncating(x, sig) ==
    LET u == Pow10(FloorLog10(x) + 1 - sig) IN IF FloorLog10(x) + 1 <= sig THEN x ELSE (x \div u) * u

round_sig(x, sig) == PyRoundInt(x, sig - FloorLog10(x) - 1)

round_with_direction_string(x) ==
    LET rounded == round_sig(x, 2)
    IN  IF rounded < x THEN <<rounded, "less than">>
        ELSE IF rounded > x THEN <<rounded, "more than">>
        ELSE <<rounded, "same as">>

\* the dictionary over_nearly_or_exactly of LotsOfStars and LotsOfForks
over_nearly_or_exactly(direction) ==
    CASE direction = "less than" -> <<"over ">>
      [] direction = "more than" -> <<"nearly ">>
      [] direction = "same as" -> <<>>

(***************************************************************************)
(* Values and dictionaries.  A dictionary keeps its keys in insertion      *)
(* order (keys) and its values by key (val).  A value is a string (s), an  *)
(* integer (i), a list of strings (l) or a dictionary (d).                 *)
(***************************************************************************)
NoVal == [x \in {} |-> 0]

EmptyDict == [keys |-> <<>>, val |-> NoVal]

VStr(s) == [k |-> "str", s |-> s]
VInt(i) == [k |-> "int", i |-> i]
VList(l) == [k |-> "list", l |-> l]
VDict(d) == [k |-> "dict", d |-> d]

Has(d, key) == key \in Range(d.keys)

\* d[key] = v: a new key goes to the end, an old one keeps its place
DictSet(d, key, v) ==
    [keys |-> IF Has(d, key) THEN d.keys ELSE Append(d.keys, key),
     val |-> [x \in Range(d.keys) \cup {key} |-> IF x = key THEN v ELSE d.val[x]]]

\* d.setdefault(key, v)
DictSetDefault(d, key, v) == IF Has(d, key) THEN d ELSE DictSet(d, key, v)

RECURSIVE SeqWithout(_, _)
SeqWithout(s, x) ==
    IF s = <<>> THEN <<>>
    ELSE IF Head(s) = x THEN SeqWithout(Tail(s), x)
    ELSE <<Head(s)>> \o SeqWithout(Tail(s), x)

\* d.pop(key)
DictPop(d, key) ==
    [keys |-> SeqWithout(d.keys, key),
     val |-> [x \in Range(d.keys) \ {key} |-> d.val[x]]]

\* list(d.values())
DictValues(d) == [n \in 1..Len(d.keys) |-> d.val[d.keys[n]]]

\* str(v), for the kinds of value the templates print
Str(v) == IF v.k = "int" THEN IntToStr(v.i) ELSE v.s

(***************************************************************************)
(* The pattern classes, their templates and the registry.  A template is   *)
(* a sequence of literal tokens and of fields; a field has the name as it  *)
(* is written between the braces (f), the key looked up (key) and the      *)
(* index applied to it (ix, -1 for none).                                  *)
(***************************************************************************)
Lit(s) == [t |-> "lit", s |-> s, f |-> "", key |-> "", ix |-> -1]
Fld(name) == [t |-> "fld", s |-> "", f |-> name, key |-> name, ix |-> -1]
FldIx(name, key, ix) == [t |-> "fld", s |-> "", f |-> name, key |-> key, ix |-> ix]

TweetPattern_patterns ==
    << <<Lit("We generate a report of repository metrics for any public github repo. Try it out at "),
         Fld("repohealth_url")>>,
       <<Lit("If you want to find out how your favourite repository is faring, take a look at "),
         Fld("repohealth_url")>> >>

NReposInCachePattern_patterns ==
    << <<Lit("I recently generated reports for #"), FldIx("names[0]", "names", 0),
         Lit(" and #"), FldIx("names[1]", "names", 1), Lit(" on "),
         Fld("repohealth_url")>> >>

RepoTweet_patterns ==
    << <<Lit("Just generated a health report for "), Fld("name"), Lit(" at "), Fld("url")>> >>

LotsOfStars_patterns ==
    << <<Lit("Just compiled a repo report for "), Fld("name"), Lit(" - it now has "),
         Fld("stars_over_or_nearly"), Fld("n_stargazers"), Lit(" stargazers!")>>,
       <<Lit("Did you know that "), Fld("name"), Lit(" now has "),
         Fld("stars_over_or_nearly"), Fld("n_stargazers"),
         Lit(" stargazers on GitHub? Full report at "), Fld("url")>> >>

LotsOfForks_patterns ==
    << <<Fld("name"), Lit(" now has "), Fld("forks_over_or_nearly"), Fld("forks"),
         Lit(" forks! See the full report at "), Fld("url")>> >>

ClassPatterns(cls) ==
    CASE cls = "TweetPattern" -> TweetPattern_patterns
      [] cls = "NReposInCachePattern" -> NReposInCachePattern_patterns
      [] cls = "RepoTweet" -> RepoTweet_patterns
      [] cls = "LotsOfStars" -> LotsOfStars_patterns
      [] cls = "LotsOfForks" -> LotsOfForks_patterns

\* cls.__subclasses__(), in the order the classes are defined
Subclasses(cls) ==
    CASE cls = "TweetPattern" -> <<"NReposInCachePattern", "RepoTweet">>
      [] cls = "RepoTweet" -> <<"LotsOfStars", "LotsOfForks">>
      [] OTHER -> <<>>

\* whether cls is RepoTweet or one of its subclasses
IsRepoTweet(cls) == cls \in {"RepoTweet", "LotsOfStars", "LotsOfForks"}

RECURSIVE all_subclasses(_, _)
all_subclasses(cls, include_self) ==
    (IF include_self THEN <<cls>> ELSE <<>>)
    \o Concat([n \in 1..Len(Subclasses(cls)) |->
                 <<Subclasses(cls)[n]>> \o all_subclasses(Subclasses(cls)[n], FALSE)])

\* a pattern instance: its class and its template
all_patterns(cls) ==
    [n \in 1..Len(ClassPatterns(cls)) |-> [cls |-> cls, pattern |-> ClassPatterns(cls)[n]]]

all_patterns_all_subclasses(cls, include_self) ==
    LET classes == all_subclasses(cls, include_self)
    IN  Concat([n \in 1..Len(classes) |-> all_patterns(classes[n])])

(***************************************************************************)
(* TweetPattern.format: str.format of the template with the keyword        *)
(* arguments **(extra_context or {}), **context.  None is the empty        *)
(* dictionary here, which is what (extra_context or {}) makes of it.       *)
(* The result is the text, or the exception raised (exc).                  *)
(***************************************************************************)
Raised(exc) == [exc |-> exc, text |-> <<>>]
Returned(text) == [exc |-> "", text |-> text]

\* one replacement field: the key's value, the index applied, then str()
FieldText(e, kwargs) ==
    LET v == kwargs.val[e.key]
    IN  IF e.ix = -1 THEN Str(v) ELSE v.l[e.ix + 1]

FieldError(e, kwargs) ==
    IF ~Has(kwargs, e.key) THEN "KeyError"
    ELSE IF e.ix # -1 /\ e.ix + 1 > Len(kwargs.val[e.key].l) THEN "IndexError"
    ELSE ""

\* the fields are looked up from left to right: text is what is rendered so
\* far, and the first field that fails raises
RECURSIVE StrFormatFrom(_, _, _)
StrFormatFrom(template, kwargs, text) ==
    IF template = <<>> THEN Returned(text)
    ELSE IF Head(template).t = "lit"
    THEN StrFormatFrom(Tail(template), kwargs, Append(text, Head(template).s))
    ELSE IF FieldError(Head(template), kwargs) # ""
    THEN Raised(FieldError(Head(template), kwargs))
    ELSE StrFormatFrom(Tail(template), kwargs, text \o FieldText(Head(template), kwargs))

StrFormat(template, kwargs) == StrFormatFrom(template, kwargs, <<>>)

\* the merge of two keyword dictionaries, context last
Merged(extra_context, context) ==
    [keys |-> extra_context.keys \o context.keys,
     val |-> [x \in Range(extra_context.keys) \cup Range(context.keys) |->
                IF Has(context, x) THEN context.val[x] ELSE extra_context.val[x]]]

format(p, context, extra_context) ==
    IF Range(extra_context.keys) \cap Range(context.keys) # {} THEN Raised("TypeError")
    ELSE StrFormat(p.pattern, Merged(extra_context, context))

(***************************************************************************)
(* TweetPattern.re_match: the template with a group (.*?) for every field, *)
(* the literal text escaped, '$' appended, matched from the start of the   *)
(* tweet (re.match).  A dot matches any token but a newline; '$' matches   *)
(* at the end of the text or before a last newline.                        *)
(***************************************************************************)
\* the regular expression: literal tokens and groups
Regexp(pattern) ==
    [n \in 1..Len(pattern) |->
       IF pattern[n].t = "lit" THEN [t |-> "lit", s |-> pattern[n].s]
       ELSE [t |-> "group", s |-> ""]]

RECURSIVE re_fields(_)
re_fields(pattern) ==
    IF pattern = <<>> THEN <<>>
    ELSE (IF Head(pattern).t = "fld" THEN <<Head(pattern).f>> ELSE <<>>)
         \o re_fields(Tail(pattern))

NoMatch == [matched |-> FALSE, groups |-> <<>>]

RECURSIVE Match(_, _), LazyGroup(_, _, _)

\* a group (.*?) at the head of rx taking n tokens of text: the match of the
\* rest when there is one, otherwise the group takes one token more, as long
\* as the next token is not a newline
LazyGroup(rx, text, n) ==
    LET rest == Match(Tail(rx), SubSeq(text, n + 1, Len(text)))
    IN  IF rest.matched
        THEN [matched |-> TRUE, groups |-> <<SubSeq(text, 1, n)>> \o rest.groups]
        ELSE IF n < Len(text) /\ text[n + 1] # "\n" THEN LazyGroup(rx, text, n + 1)
        ELSE NoMatch

Match(rx, text) ==
    IF rx = <<>>
    THEN IF text = <<>> \/ text = <<"\n">> THEN [matched |-> TRUE, groups |-> <<>>] ELSE NoMatch
    ELSE IF Head(rx).t = "lit"
    THEN IF text # <<>> /\ Head(text) = Head(rx).s THEN Match(Tail(rx), Tail(text)) ELSE NoMatch
    ELSE LazyGroup(rx, text, 0)

re_match(p, tweet) == Match(Regexp(p.pattern), tweet)

(***************************************************************************)
(* condition, updated_context and context of the pattern classes.          *)
(***************************************************************************)
Repo(context) == context.val["github"].d.val["repo"].d

stargazers(context) == Repo(context).val["stargazers_count"].i

forks(context) == Repo(context).val["forks_count"].i

\* sorted(records, key=stargazers): stable, ascending
RECURSIVE SortedByStars(_)
SortedByStars(records) ==
    IF records = <<>> THEN <<>>
    ELSE LET n == Len(records)
             x == records[n]
             before == SortedByStars(SubSeq(records, 1, n - 1))
             k == Cardinality({m \in 1..(n - 1) : stargazers(before[m].d) <= stargazers(x.d)})
         IN  SubSeq(before, 1, k) \o <<x>> \o SubSeq(before, k + 1, n - 1)

\* a condition that any record in the pool satisfies (the mutant of
\* NReposInCachePattern.condition)
NReposInCachePattern_condition_any(context) == Len(context.keys) >= 1

NReposInCachePattern_condition(context) == Len(context.keys) >= 2

NReposInCachePattern_updated_context(context) ==
    LET top_repos == SortedByStars(DictValues(context))
        top == SubSeq(top_repos, 1, IF Len(top_repos) < 3 THEN Len(top_repos) ELSE 3)
        names == [n \in 1..Len(top) |-> Repo(top[n].d).val["name"].s]
    IN  DictSet(DictSet(context, "n_repos", VInt(Len(context.keys))), "names", VList(names))

LotsOfStars_condition(context) == stargazers(context) >= 50

LotsOfStars_updated_context(context) ==
    LET rd == round_with_direction_string(stargazers(context))
    IN  DictSet(DictSet(context, "n_stargazers", VInt(rd[1])),
                "stars_over_or_nearly", VStr(over_nearly_or_exactly(rd[2])))

LotsOfForks_condition(context) == forks(context) >= 50

LotsOfForks_updated_context(context) ==
    LET rd == round_with_direction_string(forks(context))
    IN  DictSet(DictSet(context, "forks", VInt(rd[1])),
                "forks_over_or_nearly", VStr(over_nearly_or_exactly(rd[2])))

condition(p, context) ==
    CASE p.cls = "NReposInCachePattern" -> NReposInCachePattern_condition(context)
      [] p.cls = "LotsOfStars" -> LotsOfStars_condition(context)
      [] p.cls = "LotsOfForks" -> LotsOfForks_condition(context)
      [] OTHER -> TRUE

updated_context(p, context) ==
    CASE p.cls = "NReposInCachePattern" -> NReposInCachePattern_updated_context(context)
      [] p.cls = "LotsOfStars" -> LotsOfStars_updated_context(context)
      [] p.cls = "LotsOfForks" -> LotsOfForks_updated_context(context)
      [] OTHER -> context

\* TweetPattern.context: the pairs (pattern, context) it yields
TweetPattern_context(p, context) ==
    IF condition(p, context)
    THEN <<[pattern |-> p, context |-> updated_context(p, context)]>>
    ELSE <<>>

\* RepoTweet.context: the default, once for each record of the pool
RepoTweet_context(p, full_context) ==
    Concat([n \in 1..Len(full_context.keys) |->
              TweetPattern_context(p, full_context.val[full_context.keys[n]].d)])

context(p, full_context) ==
    IF IsRepoTweet(p.cls) THEN RepoTweet_context(p, full_context)
    ELSE TweetPattern_context(p, full_context)

(***************************************************************************)
(* drop_content and drop_recent.                                           *)
(***************************************************************************)
checkable == {"uuid", "name", "url"}

\* the field f of a record, formatted, equals g: the key of the first record
\* of the pool, in its order, for which that holds, "" when there is none.  Every
\* record of a pool has the keys uuid, name and url (tweet_status sets them).
FirstWith(f, g, pool) ==
    LET hits == {n \in 1..Len(pool.keys) :
                   Str(pool.val[pool.keys[n]].d.val[f]) = g}
    IN  IF hits = {} THEN "" ELSE pool.keys[Min(hits)]

RECURSIVE DropByFields(_, _, _)
DropByFields(fields, groups, pool) ==
    IF fields = <<>> \/ groups = <<>> THEN pool
    ELSE IF Head(fields) \in checkable /\ FirstWith(Head(fields), Head(groups), pool) # ""
    THEN DictPop(pool, FirstWith(Head(fields), Head(groups), pool))
    ELSE DropByFields(Tail(fields), Tail(groups), pool)

\* RepoTweet.drop_content; the content it leaves, or the exception of
\* match.groups() when the message does not match
RepoTweet_drop_content(p, message, pool) ==
    LET match == re_match(p, message)
    IN  IF ~match.matched THEN [exc |-> "AttributeError", content |-> pool]
        ELSE [exc |-> "",
              content |-> DropByFields(re_fields(p.pattern), match.groups, pool)]

drop_content(p, message, pool) ==
    IF IsRepoTweet(p.cls) THEN RepoTweet_drop_content(p, message, pool)
    ELSE [exc |-> "", content |-> pool]

\* result.remove(pattern): the first element equal to it
ListRemove(list, x) ==
    LET hits == {n \in 1..Len(list) : list[n] = x}
    IN  IF hits = {} THEN list ELSE RemoveAt(list, Min(hits))

\* the inner loop of drop_recent, over the messages, for one pattern
RECURSIVE DropMessages(_, _, _)
DropMessages(p, messages, st) ==
    IF messages = <<>> THEN st
    ELSE IF re_match(p, Head(messages)).matched
    THEN DropMessages(p, Tail(messages),
                      [result |-> ListRemove(st.result, p),
                       content |-> drop_content(p, Head(messages), st.content).content])
    ELSE DropMessages(p, Tail(messages), st)

\* the outer loop of drop_recent, over the patterns
RECURSIVE DropPatterns(_, _, _)
DropPatterns(ps, messages, st) ==
    IF ps = <<>> THEN st
    ELSE DropPatterns(Tail(ps), messages, DropMessages(Head(ps), messages, st))

\* a pruning that stops at the first pattern it removes (the mutant of drop_recent)
drop_recent_first_only(recent_messages, pats, pool) ==
    LET hits == {n \in 1..Len(pats.items) :
                   \E m \in 1..Len(recent_messages) :
                      re_match(pats.items[n], recent_messages[m]).matched}
    IN  [exc |-> "",
         result |-> IF hits = {} THEN pats.items ELSE RemoveAt(pats.items, Min(hits)),
         content |-> pool]

\* drop_recent: patterns.copy() needs a list; a generator has no copy
drop_recent(recent_messages, pats, pool) ==
    IF pats.kind # "list"
    THEN [exc |-> "AttributeError", result |-> <<>>, content |-> pool]
    ELSE LET st == DropPatterns(pats.items, recent_messages,
                                [result |-> pats.items, content |-> pool])
         IN  [exc |-> "", result |-> st.result, content |-> st.content]

(***************************************************************************)
(* The data a run works on: the cached reports, the pool made of them,     *)
(* the global context and the texts of recent tweets.                      *)
(***************************************************************************)
MakeDict(keys, val) == [keys |-> keys, val |-> val]

\* repo_data(uuid): the report of a repository, as far as the patterns read it
RawRecord(repo) ==
    MakeDict(<<"github">>,
             [x \in {"github"} |->
                VDict(MakeDict(<<"repo">>,
                   [y \in {"repo"} |->
                      VDict(MakeDict(<<"name", "stargazers_count", "forks_count">>,
                         [z \in {"name", "stargazers_count", "forks_count"} |->
                            CASE z = "name" -> VStr(<<repo[1]>>)
                              [] z = "stargazers_count" -> VInt(repo[2])
                              [] z = "forks_count" -> VInt(repo[3])]))]))])

\* the three assignments tweet_status makes to every record of content
AddExtraRecord(uuid, record) ==
    DictSet(DictSet(DictSetDefault(record, "uuid", VStr(<<uuid>>)),
                    "name", Repo(record).val["name"]),
            "url", VStr(<<"repohealth.info/report/", uuid>>))

AddExtra(pool) ==
    [keys |-> pool.keys,
     val |-> [u \in Range(pool.keys) |-> VDict(AddExtraRecord(u, pool.val[u].d))]]

global_context == MakeDict(<<"repohealth_url">>, [x \in {"repohealth_url"} |-> VStr(<<"repohealth.info">>)])

\* the repositories of the model: name, stargazers_count, forks_count
Repos == {<<"x", 1234, 150>>, <<"y", 51, 1260>>, <<"x", 7, 3>>}

UuidTok == <<"u1", "u2", "u3", "u4">>

UUIDs == {UuidTok[n] : n \in 1..MaxPool}

KeySeqs ==
    {ks \in UNION {[1..n -> UUIDs] : n \in 0..MaxPool} :
       \A a, b \in 1..Len(ks) : a # b => ks[a] # ks[b]}

\* what the cache can hold: up to MaxPool reports, of the repositories
\* repos, under distinct uuids
RawPoolsOf(repos) ==
    UNION {{MakeDict(ks, [u \in Range(ks) |-> VDict(RawRecord(c[u]))]) :
              c \in [Range(ks) -> repos]} : ks \in KeySeqs}

\* the pools as tweet_status hands them to drop_recent
PoolsOf(repos) == {AddExtra(raw) : raw \in RawPoolsOf(repos)}

\* the pools the methods of a pattern are called with
Pools == PoolsOf(Repos)

\* the repositories a run of the pruning finds cached
CachedRepos == {<<"x", 1234, 150>>, <<"y", 51, 1260>>}

Registry == all_patterns_all_subclasses("TweetPattern", TRUE)

\* the text a pattern renders for one repository cached under uuid
Tweeted(p, uuid, repo) ==
    format(p, updated_context(p, AddExtraRecord(uuid, RawRecord(repo))), global_context).text

\* texts a timeline can hold: tweets of the patterns about repositories as
\* they are or were cached, and a tweet whose url the service has shortened
RecentUniverse ==
    {Tweeted(Registry[4], "u1", <<"x", 1234, 150>>),
     Tweeted(Registry[4], "u1", <<"y", 51, 1260>>),
     Tweeted(Registry[4], "u2", <<"x", 1234, 150>>),
     Tweeted(Registry[5], "u1", <<"x", 1234, 150>>),
     Tweeted(Registry[1], "u1", <<"x", 1234, 150>>),
     <<"Just generated a health report for ", "y", " at ", "t.co/abc">>}

RecentLists == UNION {[1..n -> RecentUniverse] : n \in 0..MaxRecent}

\* the values no step has set yet
Unset == [exc |-> "", text |-> <<>>]

NoPatterns == [kind |-> "list", items |-> <<>>]

(***************************************************************************)
(* Calls of round_with_direction_string and of the updated_context of      *)
(* LotsOfStars and LotsOfForks, on every statistic from 50 to MaxStat.     *)
(***************************************************************************)
StatRecord(x) == AddExtraRecord("u1", RawRecord(<<"x", x, x>>))

InitRound ==
    /\ pc = "call"
    /\ call \in {[f |-> f, x |-> x] :
                   f \in {"round_with_direction_string", "LotsOfStars.updated_context",
                          "LotsOfForks.updated_context"},
                   x \in 50..MaxStat}
    /\ ret = Unset
    /\ cache = EmptyDict
    /\ content = EmptyDict
    /\ recently_tweeted = <<>>
    /\ patterns = NoPatterns
    /\ tweet_options = <<>>
    /\ printed = <<>>
    /\ posted = <<>>

RoundWithDirection ==
    /\ pc = "call"
    /\ call.f = "round_with_direction_string"
    /\ ret' = round_with_direction_string(call.x)
    /\ pc' = "done"
    /\ UNCHANGED <<call, cache, content, recently_tweeted, patterns, tweet_options,
                   printed, posted>>

StarsUpdatedContext ==
    /\ pc = "call"
    /\ call.f = "LotsOfStars.updated_context"
    /\ LotsOfStars_condition(StatRecord(call.x))
    /\ ret' = LotsOfStars_updated_context(StatRecord(call.x))
    /\ pc' = "done"
    /\ UNCHANGED <<call, cache, content, recently_tweeted, patterns, tweet_options,
                   printed, posted>>

ForksUpdatedContext ==
    /\ pc = "call"
    /\ call.f = "LotsOfForks.updated_context"
    /\ LotsOfForks_condition(StatRecord(call.x))
    /\ ret' = LotsOfForks_updated_context(StatRecord(call.x))
    /\ pc' = "done"
    /\ UNCHANGED <<call, cache, content, recently_tweeted, patterns, tweet_options,
                   printed, posted>>

NextRound == RoundWithDirection \/ StarsUpdatedContext \/ ForksUpdatedContext

SpecRound == InitRound /\ [][NextRound]_vars

\* the power of ten of the second significant figure of x >= 10
Unit2(x) == Pow10(Len(IntToStr(x)) - 2)

\* r is x rounded to two significant figures: a multiple of the unit of the
\* second figure, at most half a unit away from x
RoundedTo2(r, x) == r % Unit2(x) = 0 /\ 2 * (IF r < x THEN x - r ELSE r - x) <= Unit2(x)

DirectionOf(r, x) == IF r < x THEN "less than" ELSE IF r > x THEN "more than" ELSE "same as"

QualifierOf(r, x) == IF r < x THEN <<"over ">> ELSE IF r > x THEN <<"nearly ">> ELSE <<>>

ExtraContexts ==
    {EmptyDict, global_context, DictSet(global_context, "name", VStr(<<"z">>))}

InitFormat ==
    /\ pc = "call"
    /\ call \in {[pattern |-> p, extra_context |-> e, pair |-> EmptyDict] :
                   p \in Range(Registry), e \in ExtraContexts}
    /\ content \in Pools
    /\ cache = content
    /\ ret = Unset
    /\ recently_tweeted = <<>>
    /\ patterns = NoPatterns
    /\ tweet_options = <<>>
    /\ printed = <<>>
    /\ posted = <<>>

\* list(pattern.context(content))
Context ==
    /\ pc = "call"
    /\ ret' = context(call.pattern, content)
    /\ pc' = "pairs"
    /\ UNCHANGED <<call, cache, content, recently_tweeted, patterns, tweet_options,
                   printed, posted>>

\* pattern.format(context, extra_context) for one of the pairs
Format ==
    /\ pc = "pairs"
    /\ \E n \in 1..Len(ret) :
         /\ call' = [call EXCEPT !.pair = ret[n].context]
         /\ ret' = format(ret[n].pattern, ret[n].context, call.extra_context)
    /\ pc' = "formatted"
    /\ UNCHANGED <<cache, content, recently_tweeted, patterns, tweet_options,
                   printed, posted>>

\* pattern.re_match(text) of the text just rendered
ReMatch ==
    /\ pc = "formatted"
    /\ ret.exc = ""
    /\ ret' = [text |-> ret.text, match |-> re_match(call.pattern, ret.text)]
    /\ pc' = "matched"
    /\ UNCHANGED <<call, cache, content, recently_tweeted, patterns, tweet_options,
                   printed, posted>>

NextFormat == Context \/ Format \/ ReMatch

SpecFormat == InitFormat /\ [][NextFormat]_vars

\* the fields of a template, in order
RECURSIVE Fields(_)
Fields(template) ==
    IF template = <<>> THEN <<>>
    ELSE (IF Head(template).t = "fld" THEN <<Head(template)>> ELSE <<>>)
         \o Fields(Tail(template))

\* the keyword arguments of the call that rendered the text
CallKwargs == Merged(call.extra_context, call.pair)

\* C3: for every template of the registry and every context that supplies
\* all its placeholders, re_match of the rendered text succeeds and the
\* group captured for each field is the text rendered for that field.
C3_RoundTrip ==
    pc = "matched" =>
      /\ ret.match.matched
      /\ Len(ret.match.groups) = Len(Fields(call.pattern.pattern))
      /\ \A n \in 1..Len(ret.match.groups) :
           ret.match.groups[n] = FieldText(Fields(call.pattern.pattern)[n], CallKwargs)

\* the keys given in both extra_context and context
Collisions == Range(call.extra_context.keys) \cap Range(call.pair.keys)

\* C4: when a key is in both extra_context and context, format succeeds and
\* the key's placeholders take the value of context; a key in one mapping
\* only is taken from that mapping.
C4_ContextShadowsExtra ==
    (pc = "formatted" /\ Collisions # {}
       /\ \A n \in 1..Len(Fields(call.pattern.pattern)) :
             Has(CallKwargs, Fields(call.pattern.pattern)[n].key)) =>
      /\ ret.exc = ""
      /\ ret.text = StrFormat(call.pattern.pattern, CallKwargs).text

\* C6 as stated: a pattern that does not override context (TweetPattern,
\* NReposInCachePattern) yields one pair for every record of the pool that
\* meets its condition, so as many pairs as there are such records.  Every
\* record meets the condition of TweetPattern (always true) and that of
\* NReposInCachePattern (a length of at least 2: a record has four keys).
C6_Original_OnePairPerRecord ==
    (pc = "pairs" /\ ~IsRepoTweet(call.pattern.cls)) => Len(ret) = Len(content.keys)

\* C6 amended: such a pattern asks its condition once, of the pool as a
\* whole, and yields one pair (pattern, updated_context(pool)) when it holds
\* and none otherwise: TweetPattern always one pair, whose context is the
\* pool itself (also for an empty pool); NReposInCachePattern one pair when
\* the pool has at least 2 records and none otherwise, its context the pool
\* with n_repos and names (the names of up to three records, fewest
\* stargazers first) added.
C6_OnePairPerPool ==
    (pc = "pairs" /\ ~IsRepoTweet(call.pattern.cls)) =>
      /\ Len(ret) <= 1
      /\ call.pattern.cls = "TweetPattern" =>
           /\ Len(ret) = 1
           /\ ret[1].pattern = call.pattern
           /\ ret[1].context = content
      /\ call.pattern.cls = "NReposInCachePattern" =>
           /\ Len(ret) = 1 <=> Len(content.keys) >= 2
           /\ Len(ret) = 1 =>
                /\ ret[1].pattern = call.pattern
                /\ ret[1].context.keys = content.keys \o <<"n_repos", "names">>
                /\ \A u \in Range(content.keys) : ret[1].context.val[u] = content.val[u]
                /\ ret[1].context.val["n_repos"].i = Len(content.keys)
                /\ LET names == ret[1].context.val["names"].l
                   IN  /\ Len(names) = (IF Len(content.keys) < 3 THEN Len(content.keys) ELSE 3)
                       /\ \E order \in [1..Len(names) -> Range(content.keys)] :
                            /\ \A a, b \in 1..Len(names) : a # b => order[a] # order[b]
                            /\ \A a \in 1..Len(names) :
                                 /\ names[a] = content.val[order[a]].d.val["name"].s
                                 /\ \A u \in Range(content.keys) \ {order[b] : b \in 1..a} :
                                      stargazers(content.val[order[a]].d)
                                        <= stargazers(content.val[u].d)

\* NReposInCachePattern asked for its pairs on a pool of two records
C6_Witness ==
    /\ pc = "pairs"
    /\ call.pattern.cls = "NReposInCachePattern"
    /\ Len(content.keys) = 2
    /\ Len(ret) = 1

(***************************************************************************)
(* Pruning and generation on a list of patterns: drop_content and          *)
(* drop_recent called with the registry as a list, a pool and recent       *)
(* messages, then the loop of tweet_status that renders the candidates of  *)
(* the patterns drop_recent returned.                                      *)
(***************************************************************************)
NoPattern == [cls |-> "", pattern |-> <<>>]

NoCall == [f |-> "", pattern |-> NoPattern, message |-> <<>>, extra_context |-> EmptyDict]

InitPrune ==
    /\ pc = "call"
    /\ call = NoCall
    /\ content \in PoolsOf(CachedRepos)
    /\ cache = content
    /\ recently_tweeted \in RecentLists
    /\ patterns = [kind |-> "list", items |-> Registry]
    /\ ret = Unset
    /\ tweet_options = <<>>
    /\ printed = <<>>
    /\ posted = <<>>

\* pattern.drop_content(message, content), for a pattern of the RepoTweet
\* family and a recent message it matches
DropContent ==
    /\ pc = "call"
    /\ \E n \in 1..Len(patterns.items), m \in 1..Len(recently_tweeted) :
         /\ IsRepoTweet(patterns.items[n].cls)
         /\ re_match(patterns.items[n], recently_tweeted[m]).matched
         /\ call' = [call EXCEPT !.f = "drop_content", !.pattern = patterns.items[n],
                                 !.message = recently_tweeted[m]]
         /\ content' = drop_content(patterns.items[n], recently_tweeted[m], content).content
    /\ pc' = "dropped"
    /\ UNCHANGED <<ret, cache, recently_tweeted, patterns, tweet_options, printed, posted>>

\* patterns = drop_recent(recently_tweeted, patterns, content)
DropRecent ==
    /\ pc = "call"
    /\ \E r \in {drop_recent(recently_tweeted, patterns, content)} :
           /\ ret' = [exc |-> r.exc, text |-> <<>>]
           /\ patterns' = IF r.exc = "" THEN [kind |-> "list", items |-> r.result] ELSE patterns
           /\ content' = r.content
           /\ pc' = IF r.exc = "" THEN "pruned" ELSE "raised"
    /\ call' = [call EXCEPT !.f = "drop_recent"]
    /\ UNCHANGED <<cache, recently_tweeted, tweet_options, printed, posted>>

\* every (pattern, context) the patterns of a list yield for a pool, in order
AllPairs(items, pool) == Concat([n \in 1..Len(items) |-> context(items[n], pool)])

\* the loop that fills tweet_options: the texts rendered so far (options),
\* and the exception that ended the loop, if one did
RECURSIVE RenderAll(_, _, _)
RenderAll(pairs, extra_context, options) ==
    IF pairs = <<>> THEN [exc |-> "", options |-> options]
    ELSE LET r == format(Head(pairs).pattern, Head(pairs).context, extra_context)
         IN  IF r.exc # "" THEN [exc |-> r.exc, options |-> options]
             ELSE RenderAll(Tail(pairs), extra_context, Append(options, r.text))

\* a loop that drops a pair whose render raises and goes on (what C8 asks for)
RenderAllSkipping(pairs, extra_context) ==
    LET ok == [n \in 1..Len(pairs) |->
                 LET r == format(pairs[n].pattern, pairs[n].context, extra_context)
                 IN  IF r.exc = "" THEN <<r.text>> ELSE <<>>]
    IN  Concat(ok)

\* the loop over the patterns left, with the global context of tweet_status
\* or with no extra context at all (format's default)
RenderCandidates ==
    /\ pc = "pruned"
    /\ \E e \in {global_context, EmptyDict} :
         \E r \in {RenderAll(AllPairs(patterns.items, content), e, <<>>)} :
             /\ call' = [call EXCEPT !.f = "render", !.extra_context = e]
             /\ ret' = [exc |-> r.exc, text |-> <<>>]
             /\ tweet_options' = IF r.exc = "" THEN r.options ELSE tweet_options
             /\ pc' = IF r.exc = "" THEN "rendered" ELSE "raised"
    /\ UNCHANGED <<cache, content, recently_tweeted, patterns, printed, posted>>

NextPrune == DropContent \/ DropRecent \/ RenderCandidates

SpecPrune == InitPrune /\ [][NextPrune]_vars

\* a pattern matches one of the recent messages
MatchesRecent(p) ==
    \E m \in 1..Len(recently_tweeted) : re_match(p, recently_tweeted[m]).matched

Pruned == pc \in {"pruned", "rendered"} \/ (pc = "raised" /\ call.f = "render")

\* C1: a pattern whose template matches a recent message is not in the
\* result of drop_recent and no candidate of tweet_options is a text of that
\* pattern; a pattern that matches no recent message is still in the result,
\* at its place.
C1_PruningSuppressesGeneration ==
    Pruned =>
      /\ \A n \in 1..Len(Registry) :
           IF MatchesRecent(Registry[n])
           THEN /\ Registry[n] \notin Range(patterns.items)
                /\ \A t \in 1..Len(tweet_options) :
                     ~re_match(Registry[n], tweet_options[t]).matched
           ELSE Registry[n] \in Range(patterns.items)
      /\ \A a, b \in 1..Len(patterns.items) :
           a < b => \E i, j \in 1..Len(Registry) :
                      i < j /\ Registry[i] = patterns.items[a] /\ Registry[j] = patterns.items[b]

\* candidates were rendered after a pattern was pruned, and a pattern that
\* was kept wrote one of them
C1_Witness ==
    /\ pc = "rendered"
    /\ \E n \in 1..Len(Registry) : MatchesRecent(Registry[n])
    /\ \E n \in 1..Len(patterns.items), t \in 1..Len(tweet_options) :
         re_match(patterns.items[n], tweet_options[t]).matched

\* the records of the pool as it was given from which pattern p renders the message
RenderedFrom(p, message, pool) ==
    {u \in Range(pool.keys) :
       /\ condition(p, pool.val[u].d)
       /\ format(p, updated_context(p, pool.val[u].d), global_context) = Returned(message)}

\* C2: for a pattern of the RepoTweet family and a message it rendered from
\* one record of the pool, drop_content leaves the pool with exactly that
\* record removed and every other record in place and unchanged, also when
\* two records share a name.
C2_RetractsTheMatchedRecord ==
    (pc = "dropped" /\ RenderedFrom(call.pattern, call.message, cache) # {}) =>
      \E u \in RenderedFrom(call.pattern, call.message, cache) : content = DictPop(cache, u)

\* the orders in which a list can be given
Orders(list) ==
    {[n \in 1..Len(list) |-> list[f[n]]] :
       f \in {g \in [1..Len(list) -> 1..Len(list)] :
                \A a, b \in 1..Len(list) : a # b => g[a] # g[b]}}

\* C5: drop_recent leaves the same remaining patterns and the same pool for
\* every order of the recent messages.
C5_OrderOfRecentIsIrrelevant ==
    (pc = "pruned") =>
      \A other \in Orders(recently_tweeted) :
         LET r == drop_recent(other, [kind |-> "list", items |-> Registry], cache)
         IN  r.result = patterns.items /\ r.content = content

Init ==
    /\ pc = "start"
    /\ call = NoCall
    /\ ret = Unset
    /\ cache = EmptyDict
    /\ content = EmptyDict
    /\ recently_tweeted = <<>>
    /\ patterns = NoPatterns
    /\ tweet_options = <<>>
    /\ printed = <<>>
    /\ posted = <<>>

\* patterns = TweetPattern.all_patterns_all_subclasses()
AllPatterns ==
    /\ pc = "start"
    /\ patterns' = [kind |-> "generator",
                    items |-> all_patterns_all_subclasses("TweetPattern", TRUE)]
    /\ call' = [call EXCEPT !.f = "tweet_status"]
    /\ pc' = "in_cache"
    /\ UNCHANGED <<ret, cache, content, recently_tweeted, tweet_options, printed, posted>>

\* avail = repohealth.generate.in_cache(): whatever reports are cached
InCache ==
    /\ pc = "in_cache"
    /\ cache' \in RawPoolsOf(CachedRepos)
    /\ pc' = "get_tweets"
    /\ UNCHANGED <<call, ret, content, recently_tweeted, patterns, tweet_options,
                   printed, posted>>

\* recently_tweeted = list(get_tweets(api)): whatever the timeline holds
GetTweets ==
    /\ pc = "get_tweets"
    /\ recently_tweeted' \in RecentLists
    /\ pc' = "repo_data"
    /\ UNCHANGED <<call, ret, cache, content, patterns, tweet_options, printed, posted>>

\* content = {uuid: repo_data(uuid) for uuid in avail}, then uuid, name and
\* url are added to every record
RepoData ==
    /\ pc = "repo_data"
    /\ content' = AddExtra(cache)
    /\ pc' = "drop_recent"
    /\ UNCHANGED <<call, ret, cache, recently_tweeted, patterns, tweet_options,
                   printed, posted>>

\* patterns = drop_recent(recently_tweeted, patterns, content)
TweetStatusDropRecent ==
    /\ pc = "drop_recent"
    /\ \E r \in {drop_recent(recently_tweeted, patterns, content)} :
           /\ ret' = [exc |-> r.exc, text |-> <<>>]
           /\ patterns' = IF r.exc = "" THEN [kind |-> "list", items |-> r.result] ELSE patterns
           /\ content' = r.content
           /\ pc' = IF r.exc = "" THEN "pruned" ELSE "raised"
    /\ UNCHANGED <<call, cache, recently_tweeted, tweet_options, printed, posted>>

Next == AllPatterns \/ InCache \/ GetTweets \/ RepoData \/ TweetStatusDropRecent

Spec == Init /\ [][Next]_vars

\* the run of tweet_status is over: it returned, or an exception left it
RunEnded == call.f = "tweet_status" /\ pc \in {"done", "raised"}

\* C7: a run of tweet_status with no rendered candidate reports 'Nothing to
\* tweet' and never calls update_status; a run with candidates calls
\* update_status exactly once, with one of the rendered candidates.
C7_SelectionAndPosting ==
    RunEnded =>
      IF tweet_options = <<>>
      THEN printed = <<"Nothing to tweet :(">> /\ posted = <<>>
      ELSE Len(posted) = 1 /\ posted[1] \in Range(tweet_options)

\* the records retraction took out of the pool
Retracted == {u \in Range(cache.keys) : u \notin Range(content.keys)}

\* C10: in a run of tweet_status all retraction is complete (drop_recent has
\* returned the patterns that are left) before candidates are generated, and
\* no candidate is built from a record that retraction removed: none is the
\* text a per-record pattern renders from such a record, and a candidate of
\* NReposInCachePattern is rendered from the pool as retraction left it,
\* which then has at least 2 records.
C10_RetractedRecordNotOffered ==
    RunEnded =>
      /\ patterns.kind = "list"
      /\ ret.exc = ""
      /\ \A t \in 1..Len(tweet_options), n \in 1..Len(Registry) :
           /\ IsRepoTweet(Registry[n].cls) =>
                \A u \in Retracted :
                  tweet_options[t]
                    # format(Registry[n],
                             updated_context(Registry[n], AddExtra(cache).val[u].d),
                             global_context).text
           /\ (/\ Registry[n].cls = "NReposInCachePattern"
               /\ re_match(Registry[n], tweet_options[t]).matched) =>
                /\ condition(Registry[n], content)
                /\ tweet_options[t]
                     = format(Registry[n], updated_context(Registry[n], content),
                              global_context).text

====
